---- MODULE Spec2Model ----
(***************************************************************************)
(* A model of the interactive shell of Project2/main.go: the read-prompt-  *)
(* dispatch loop (runLoop), the dispatcher (handleInput) and the built-in  *)
(* commands, over a small model of the operating system (a tree of         *)
(* directories, a working directory, an environment table, a set of        *)
(* executables).                                                           *)
(*                                                                         *)
(* Text is modelled as sequences of one-character strings, so that         *)
(* trimming, tokenising and joining are computed character by character.   *)
(***************************************************************************)
EXTENDS Integers, Sequences, FiniteSets, TLC

----------------------------------------------------------------------------
(* Bounds of the model *)

\* number of newline-terminated lines of the input stream of runLoop
MaxLines == 2
\* number of prompt renderings that may fail in one run
MaxPromptFails == 1
\* number of failed reads (end of input) after which the model stops looking
MaxReadFails == 2
\* length of the runs of whitespace between the tokens of the lines handed
\* to handleInput on its own
MaxGap == 2

----------------------------------------------------------------------------
(* Text *)

\* unicode.IsSpace, restricted to the characters of the model
IsSpace(c) == c \in {" ", "\t", "\n", "\r"}

RECURSIVE TrimLeft(_)
TrimLeft(s) ==
    IF s = <<>> THEN s
    ELSE IF IsSpace(Head(s)) THEN TrimLeft(Tail(s)) ELSE s

RECURSIVE TrimRight(_)
TrimRight(s) ==
    IF s = <<>> THEN s
    ELSE IF IsSpace(s[Len(s)]) THEN TrimRight(SubSeq(s, 1, Len(s) - 1)) ELSE s

\* strings.TrimSpace
TrimSpace(s) == TrimRight(TrimLeft(s))

\* the scan of strings.Fields: cur is the token being collected, acc the
\* tokens already closed
RECURSIVE FieldsFrom(_, _, _)
FieldsFrom(s, cur, acc) ==
    IF s = <<>> THEN (IF cur = <<>> THEN acc ELSE Append(acc, cur))
    ELSE IF IsSpace(Head(s))
         THEN FieldsFrom(Tail(s), <<>>, IF cur = <<>> THEN acc ELSE Append(acc, cur))
         ELSE FieldsFrom(Tail(s), Append(cur, Head(s)), acc)

\* a split at every single whitespace character, which keeps empty tokens
RECURSIVE SplitFrom(_, _, _)
SplitFrom(s, cur, acc) ==
    IF s = <<>> THEN Append(acc, cur)
    ELSE IF IsSpace(Head(s))
         THEN SplitFrom(Tail(s), <<>>, Append(acc, cur))
         ELSE SplitFrom(Tail(s), Append(cur, Head(s)), acc)

FieldsKeepingEmpty(s) == SplitFrom(s, <<>>, <<>>)

\* strings.Fields
Fields(s) == FieldsFrom(s, <<>>, <<>>)

\* strings.Join
RECURSIVE Join(_, _)
Join(elems, sep) ==
    IF elems = <<>> THEN <<>>
    ELSE IF Len(elems) = 1 THEN elems[1]
    ELSE elems[1] \o sep \o Join(Tail(elems), sep)

\* the words of the model
W_cd      == <<"c", "d">>
W_env     == <<"e", "n", "v">>
W_exit    == <<"e", "x", "i", "t">>
W_echo    == <<"e", "c", "h", "o">>
W_pwd     == <<"p", "w", "d">>
W_history == <<"h", "i", "s", "t", "o", "r", "y">>
W_mkdir   == <<"m", "k", "d", "i", "r">>
W_rm      == <<"r", "m">>
W_EXIT    == <<"E", "X", "I", "T">>
W_Cd      == <<"C", "d">>
W_ls      == <<"l", "s">>
W_nosuch  == <<"n", "o", "s", "u", "c", "h">>
W_a       == <<"a">>
W_b       == <<"b">>


S_notice == <<"e", "x", "i", "t", "i", "n", "g", " ", "g", "r", "a", "c", "e", "f", "u", "l", "l", "y", ".", ".", ".", "\n">>
S_notfound == <<" ", "n", "o", "t", " ", "f", "o", "u", "n", "d", " ", "i", "n", " ", "e", "n", "v", "i", "r", "o", "n", "m", "e", "n", "t", " ", "v", "a", "r", "i", "a", "b", "l", "e", "s", "\n">>
S_history == <<"H", "i", "s", "t", "o", "r", "y", " ", "c", "o", "m", "m", "a", "n", "d", " ", "i", "s", " ", "n", "o", "t", " ", "i", "m", "p", "l", "e", "m", "e", "n", "t", "e", "d", " ", "y", "e", "t", ".", "\n">>

----------------------------------------------------------------------------
(* Errors.  An error is a record; Nil is Go's nil error. *)

Nil == [op |-> "", path |-> <<>>, msg |-> "nil"]
Err(op, path, msg) == [op |-> op, path |-> path, msg |-> msg]

----------------------------------------------------------------------------
(* The operating system: os = [cwd, fs].  A path is a sequence of names,   *)
(* <<>> is the root; fs is the set of the directories other than the root. *)
(* A command argument is one name, resolved against the working directory. *)

Username == <<"u">>

\* the inherited environment table, in the order of os.Environ
Environ == << <<W_a, <<"1">>>>, <<W_ls, <<"2">>>> >>

\* the names the executable search finds
Executables == {W_ls}

Resolve(os, x) == os.cwd \o <<x>>

\* the text of a path, as os.Getwd returns it
RECURSIVE PathStr(_)
PathStr(p) ==
    IF p = <<>> THEN <<"/">>
    ELSE IF Len(p) = 1 THEN <<"/">> \o p[1]
    ELSE <<"/">> \o p[1] \o PathStr(Tail(p))

\* os.Chdir
Chdir(os, x) ==
    IF Resolve(os, x) \in os.fs
    THEN [err |-> Nil, os |-> [os EXCEPT !.cwd = Resolve(os, x)]]
    ELSE [err |-> Err("chdir", x, "no such file or directory"), os |-> os]

\* os.Mkdir
Mkdir(os, x) ==
    IF Resolve(os, x) \in os.fs
    THEN [err |-> Err("mkdir", x, "file exists"), os |-> os]
    ELSE [err |-> Nil, os |-> [os EXCEPT !.fs = @ \cup {Resolve(os, x)}]]

HasChildren(fs, p) ==
    \E q \in fs : Len(q) > Len(p) /\ SubSeq(q, 1, Len(p)) = p

\* os.Remove
Remove(os, x) ==
    IF Resolve(os, x) \notin os.fs
    THEN [err |-> Err("remove", x, "no such file or directory"), os |-> os]
    ELSE IF HasChildren(os.fs, Resolve(os, x))
    THEN [err |-> Err("remove", x, "directory not empty"), os |-> os]
    ELSE [err |-> Nil, os |-> [os EXCEPT !.fs = @ \ {Resolve(os, x)}]]

\* os.LookupEnv: the value of the first entry of the table with this name
LookupEnv(name) ==
    LET hits == {i \in 1..Len(Environ) : Environ[i][1] = name}
    IN  IF hits = {} THEN [exists |-> FALSE, value |-> <<>>]
        ELSE [exists |-> TRUE,
              value |-> Environ[CHOOSE i \in hits : \A j \in hits : i <= j][2]]

----------------------------------------------------------------------------
(* The built-in commands.  Each returns the error the Go function returns, *)
(* together with its side effects: out, the writes made to the output      *)
(* writer; os, the operating system afterwards; ops, the system calls      *)
(* attempted, in order.                                                    *)

Wr(k, s) == [k |-> k, s |-> s]
Res(err, out, os, ops) == [err |-> err, out |-> out, os |-> os, ops |-> ops]

\* a cd that goes to the root directory when it has no argument
ChangeDirectoryHome(args, os) ==
    IF Len(args) = 0
    THEN Res(Nil, <<>>, [os EXCEPT !.cwd = <<>>], << <<"chdir", <<"/">>>> >>)
    ELSE LET r == Chdir(os, args[1])
         IN  Res(r.err, <<>>, r.os, << <<"chdir", args[1]>> >>)

ChangeDirectory(args, os) ==
    IF Len(args) = 0
    THEN Res(Err("cd", <<>>, "missing argument"), <<>>, os, <<>>)
    ELSE LET r == Chdir(os, args[1])
         IN  Res(r.err, <<>>, r.os, << <<"chdir", args[1]>> >>)

RECURSIVE EnvLoop(_)
EnvLoop(args) ==
    IF args = <<>> THEN <<>>
    ELSE LET l == LookupEnv(Head(args))
         IN  << IF l.exists
                THEN Wr("env", Head(args) \o <<"=">> \o l.value \o <<"\n">>)
                ELSE Wr("env", Head(args) \o S_notfound) >>
             \o EnvLoop(Tail(args))

\* an env that stops at the first name that is not set, with an error
RECURSIVE EnvLoopStop(_, _)
EnvLoopStop(args, out) ==
    IF args = <<>> THEN [err |-> Nil, out |-> out]
    ELSE LET l == LookupEnv(Head(args))
         IN  IF l.exists
             THEN EnvLoopStop(Tail(args),
                              Append(out, Wr("env", Head(args) \o <<"=">> \o l.value \o <<"\n">>)))
             ELSE [err |-> Err("env", Head(args), "not found"), out |-> out]

EnvironmentVariablesStopAtUnset(args, os) ==
    IF Len(args) = 0
    THEN Res(Nil,
             [i \in 1..Len(Environ) |->
                 Wr("env", Environ[i][1] \o <<"=">> \o Environ[i][2] \o <<"\n">>)],
             os, <<>>)
    ELSE Res(EnvLoopStop(args, <<>>).err, EnvLoopStop(args, <<>>).out, os, <<>>)

EnvironmentVariables(args, os) ==
    IF Len(args) = 0
    THEN Res(Nil,
             [i \in 1..Len(Environ) |->
                 Wr("env", Environ[i][1] \o <<"=">> \o Environ[i][2] \o <<"\n">>)],
             os, <<>>)
    ELSE Res(Nil, EnvLoop(args), os, <<>>)

\* an echo that writes nothing when it has no argument
EchoSkipEmpty(args, os) ==
    IF Len(args) = 0 THEN Res(Nil, <<>>, os, <<>>)
    ELSE Res(Nil, << Wr("echo", Join(args, <<" ">>) \o <<"\n">>) >>, os, <<>>)

Echo(args, os) ==
    Res(Nil, << Wr("echo", Join(args, <<" ">>) \o <<"\n">>) >>, os, <<>>)

\* wdOk: whether os.Getwd succeeds
PrintWorkingDirectory(os, wdOk) ==
    IF ~wdOk
    THEN Res(Err("getwd", <<>>, "no such file or directory"), <<>>, os, <<>>)
    ELSE Res(Nil, << Wr("pwd", PathStr(os.cwd) \o <<"\n">>) >>, os, <<>>)

History(args, os) ==
    Res(Nil, << Wr("history", S_history) >>, os, <<>>)

\* the loop of MakeDirectory over its arguments
RECURSIVE MkdirLoop(_, _, _)
MkdirLoop(args, os, ops) ==
    IF args = <<>> THEN Res(Nil, <<>>, os, ops)
    ELSE LET r == Mkdir(os, Head(args))
             done == Append(ops, <<"mkdir", Head(args)>>)
         IN  IF r.err # Nil THEN Res(r.err, <<>>, r.os, done)
             ELSE MkdirLoop(Tail(args), r.os, done)

\* a loop that goes on to the next argument after a failure and returns
\* the last error
RECURSIVE MkdirLoopAll(_, _, _, _)
MkdirLoopAll(args, os, ops, err) ==
    IF args = <<>> THEN Res(err, <<>>, os, ops)
    ELSE LET r == Mkdir(os, Head(args))
         IN  MkdirLoopAll(Tail(args), r.os, Append(ops, <<"mkdir", Head(args)>>),
                          IF r.err # Nil THEN r.err ELSE err)

MakeDirectoryNoAbort(args, os) ==
    IF Len(args) = 0
    THEN Res(Err("mkdir", <<>>, "missing operand"), <<>>, os, <<>>)
    ELSE MkdirLoopAll(args, os, <<>>, Nil)

MakeDirectory(args, os) ==
    IF Len(args) = 0
    THEN Res(Err("mkdir", <<>>, "missing operand"), <<>>, os, <<>>)
    ELSE MkdirLoop(args, os, <<>>)

\* the loop of RemoveFile over its arguments
RECURSIVE RemoveLoop(_, _, _)
RemoveLoop(args, os, ops) ==
    IF args = <<>> THEN Res(Nil, <<>>, os, ops)
    ELSE LET r == Remove(os, Head(args))
             done == Append(ops, <<"remove", Head(args)>>)
         IN  IF r.err # Nil THEN Res(r.err, <<>>, r.os, done)
             ELSE RemoveLoop(Tail(args), r.os, done)

RemoveFile(args, os) ==
    IF Len(args) = 0
    THEN Res(Err("rm", <<>>, "missing operand"), <<>>, os, <<>>)
    ELSE RemoveLoop(args, os, <<>>)

\* status: the exit status of the child process, when it can be launched.
\* The child is taken to end: cmd.Run returns.
\* The child writes to the standard streams of the process, not to the
\* output writer, and is taken not to touch the directories of the model.
executeCommand(name, args, os, status) ==
    IF name \notin Executables
    THEN Res(Err("exec", name, "executable file not found in $PATH"), <<>>, os,
             << <<"exec", name>> >>)
    ELSE IF status # 0
    THEN Res(Err("exec", name, "exit status 1"), <<>>, os, << <<"exec", name>> >>)
    ELSE Res(Nil, <<>>, os, << <<"exec", name>> >>)

----------------------------------------------------------------------------
(* The dispatcher *)

\* the capacity of a channel made without a buffer
NoBuffer == <<>>
ExitCapUnbuffered == Len(NoBuffer)

\* the capacity of the channel main makes
ExitCap == 2

\* what handleInput returns and does: the result of the handler, the
\* handler called, the command name and arguments selected, the number of
\* signals pending on the channel afterwards, and whether the send on the
\* channel blocks (handleInput then never returns)
HRes(r, call, fields, exit, blocked) ==
    [err |-> r.err, out |-> r.out, os |-> r.os, ops |-> r.ops, call |-> call,
     fields |-> fields, exit |-> exit, blocked |-> blocked]

\* a send that enqueues nothing
SendDropped(exit) == [exit |-> exit, blocked |-> FALSE]

\* a send made twice
SendTwice(exit) == [exit |-> exit + 2, blocked |-> FALSE]

\* a send on a channel without a buffer
SendUnbuffered(exit) == [exit |-> exit, blocked |-> TRUE]

\* line 85, the send on the channel: it blocks when the buffer is full,
\* since nothing receives while handleInput runs
Send(exit) ==
    IF exit < ExitCap THEN [exit |-> exit + 1, blocked |-> FALSE]
    ELSE [exit |-> exit, blocked |-> TRUE]

\* lines 76-99: the command name and the arguments, and the switch on the name
switchName(fields, exit, os, status, wdOk) ==
    LET name == fields[1]
        args == Tail(fields)
    IN  CASE name = W_cd -> HRes(ChangeDirectory(args, os), "cd", fields, exit, FALSE)
          [] name = W_env -> HRes(EnvironmentVariables(args, os), "env", fields, exit, FALSE)
          [] name = W_exit ->
               HRes(Res(Nil, <<>>, os, <<>>), "exit", fields,
                    Send(exit).exit, Send(exit).blocked)
          [] name = W_echo -> HRes(Echo(args, os), "echo", fields, exit, FALSE)
          [] name = W_pwd -> HRes(PrintWorkingDirectory(os, wdOk), "pwd", fields, exit, FALSE)
          [] name = W_history -> HRes(History(args, os), "history", fields, exit, FALSE)
          [] name = W_mkdir -> HRes(MakeDirectory(args, os), "mkdir", fields, exit, FALSE)
          [] name = W_rm -> HRes(RemoveFile(args, os), "rm", fields, exit, FALSE)
          [] OTHER -> HRes(executeCommand(name, args, os, status), "exec", fields, exit, FALSE)

LowerChar(c) ==
    CASE c = "E" -> "e" [] c = "X" -> "x" [] c = "I" -> "i" [] c = "T" -> "t"
      [] c = "C" -> "c" [] OTHER -> c
Lower(s) == [i \in 1..Len(s) |-> LowerChar(s[i])]

\* a dispatcher that matches the command name without regard to case
handleInputFold(input, exit, os, status, wdOk) ==
    LET fields == Fields(TrimSpace(input))
    IN  IF Len(fields) = 0
        THEN HRes(Res(Nil, <<>>, os, <<>>), "none", fields, exit, FALSE)
        ELSE switchName(<<Lower(fields[1])>> \o Tail(fields), exit, os, status, wdOk)

\* a dispatcher without the check of line 71: args[0] is out of range
handleInputNoEmptyCheck(input, exit, os, status, wdOk) ==
    LET fields == Fields(TrimSpace(input))
    IN  IF Len(fields) = 0
        THEN HRes(Res(Err("panic", <<>>, "index out of range"), <<>>, os, <<>>),
                  "none", fields, exit, FALSE)
        ELSE switchName(fields, exit, os, status, wdOk)

handleInput(input, exit, os, status, wdOk) ==
    LET fields == Fields(TrimSpace(input))
    IN  IF Len(fields) = 0
        THEN HRes(Res(Nil, <<>>, os, <<>>), "none", fields, exit, FALSE)
        ELSE switchName(fields, exit, os, status, wdOk)

\* printPrompt; how: which of its steps fails, if any
printPrompt(os, how) ==
    CASE how = "user"  -> [err |-> Err("user", <<>>, "unknown userid"), out |-> <<>>]
      [] how = "getwd" -> [err |-> Err("getwd", <<>>, "no such file or directory"), out |-> <<>>]
      [] how = "write" -> [err |-> Err("write", <<>>, "short write"), out |-> <<>>]
      [] OTHER -> [err |-> Nil,
                   out |-> << Wr("prompt", PathStr(os.cwd) \o <<" ", "[">> \o Username
                                            \o <<"]", " ", "$", " ">>) >>]

----------------------------------------------------------------------------
(* The state *)

VARIABLES
    in,      \* the input not yet read
    w,       \* the writes made to the output writer
    errW,    \* the errors written to the error writer, one line each
    exit,    \* the number of signals pending on the exit channel
    pc,      \* where runLoop is
    input,   \* the variable input of runLoop
    os,      \* the operating system
    hist,    \* the lines handed to handleInput so far
    last,    \* what the last call of handleInput returned and did
    pfails,  \* the prompts that failed so far
    rfails   \* the reads that failed so far

vars == <<in, w, errW, exit, pc, input, os, hist, last, pfails, rfails>>

\* bufio.Reader.ReadString('\n') on the unread input s
HasNewline(s) == \E i \in 1..Len(s) : s[i] = "\n"
FirstNewline(s) == CHOOSE i \in 1..Len(s) : s[i] = "\n" /\ \A j \in 1..(i - 1) : s[j] # "\n"
ReadString(s) ==
    IF HasNewline(s)
    THEN [line |-> SubSeq(s, 1, FirstNewline(s)),
          rest |-> SubSeq(s, FirstNewline(s) + 1, Len(s)), err |-> Nil]
    ELSE [line |-> s, rest |-> <<>>, err |-> Err("read", <<>>, "EOF")]

NoLast == HRes(Res(Nil, <<>>, [cwd |-> <<>>, fs |-> {}], <<>>), "", <<>>, 0, FALSE)

----------------------------------------------------------------------------
(* The inputs *)

\* a command line: its tokens separated by one space, and a newline
Line(toks) == Join(toks, <<" ">>) \o <<"\n">>

LineSet ==
    { Line(<<W_exit>>), Line(<<W_exit, W_a>>), Line(<<W_EXIT>>),
      Line(<<>>), <<" ", "\t", "\n">>,
      Line(<<W_echo, W_a>>), Line(<<W_cd>>), Line(<<W_mkdir, W_b, W_a>>),
      Line(<<W_nosuch>>), Line(<<W_ls>>), Line(<<W_pwd>>), Line(<<W_Cd, W_a>>) }

\* what may follow the last newline of the input
Fragments == { <<>>, W_exit }

RECURSIVE Streams(_)
Streams(n) ==
    IF n = 0 THEN Fragments
    ELSE Fragments \cup { l \o s : l \in LineSet, s \in Streams(n - 1) }

OsInits == { [cwd |-> <<>>, fs |-> {<<W_a>>}] }

----------------------------------------------------------------------------
(* runLoop *)

Init ==
    /\ in \in Streams(MaxLines)
    /\ os \in OsInits
    /\ w = <<>>
    /\ errW = <<>>
    /\ exit = 0
    /\ pc = "select"
    /\ input = <<>>
    /\ hist = <<>>
    /\ last = NoLast
    /\ pfails = 0
    /\ rfails = 0

\* the exit case without its return
SelectExitNoReturn ==
    /\ pc = "select"
    /\ exit > 0
    /\ exit' = exit - 1
    /\ w' = Append(w, Wr("notice", S_notice))
    /\ pc' = "select"
    /\ UNCHANGED <<in, errW, input, os, hist, last, pfails, rfails>>

\* an exit check that sees the signal and leaves it on the channel
SelectExitPeek ==
    /\ pc = "select"
    /\ exit > 0
    /\ w' = Append(w, Wr("notice", S_notice))
    /\ pc' = "done"
    /\ UNCHANGED <<in, errW, exit, input, os, hist, last, pfails, rfails>>

\* lines 25-28: a signal is pending
SelectExit ==
    /\ pc = "select"
    /\ exit > 0
    /\ exit' = exit - 1
    /\ w' = Append(w, Wr("notice", S_notice))
    /\ pc' = "done"
    /\ UNCHANGED <<in, errW, input, os, hist, last, pfails, rfails>>

\* lines 29-30: no signal is pending, the prompt is written
PromptOk ==
    /\ pc = "select"
    /\ exit = 0
    /\ w' = w \o printPrompt(os, "ok").out
    /\ pc' = "read"
    /\ UNCHANGED <<in, errW, exit, input, os, hist, last, pfails, rfails>>

\* a prompt failure without the continue of line 32
PromptFailFallsThrough ==
    /\ pc = "select"
    /\ exit = 0
    /\ pfails < MaxPromptFails
    /\ \E how \in {"user", "getwd", "write"} :
          /\ w' = w \o printPrompt(os, how).out
          /\ errW' = Append(errW, printPrompt(os, how).err)
    /\ pfails' = pfails + 1
    /\ pc' = "read"
    /\ UNCHANGED <<in, exit, input, os, hist, last, rfails>>

\* lines 29-33: no signal is pending, printPrompt fails
PromptFail ==
    /\ pc = "select"
    /\ exit = 0
    /\ pfails < MaxPromptFails
    /\ \E how \in {"user", "getwd", "write"} :
          /\ w' = w \o printPrompt(os, how).out
          /\ errW' = Append(errW, printPrompt(os, how).err)
    /\ pfails' = pfails + 1
    /\ pc' = "select"
    /\ UNCHANGED <<in, exit, input, os, hist, last, rfails>>

\* a read through a reader made anew in the iteration: what the reader had
\* buffered after the line is lost
ReadOkNewReader ==
    /\ pc = "read"
    /\ ReadString(in).err = Nil
    /\ input' = ReadString(in).line
    /\ in' = <<>>
    /\ pc' = "dispatch"
    /\ UNCHANGED <<w, errW, exit, os, hist, last, pfails, rfails>>

\* line 34: a line is read
ReadOk ==
    /\ pc = "read"
    /\ ReadString(in).err = Nil
    /\ input' = ReadString(in).line
    /\ in' = ReadString(in).rest
    /\ pc' = "dispatch"
    /\ UNCHANGED <<w, errW, exit, os, hist, last, pfails, rfails>>

\* a read failure that ends the loop
ReadFailReturn ==
    /\ pc = "read"
    /\ ReadString(in).err # Nil
    /\ rfails < MaxReadFails
    /\ input' = ReadString(in).line
    /\ in' = ReadString(in).rest
    /\ errW' = Append(errW, ReadString(in).err)
    /\ rfails' = rfails + 1
    /\ pc' = "done"
    /\ UNCHANGED <<w, exit, os, hist, last, pfails>>

\* a failed read whose text is dispatched all the same
ReadFailDispatchesFragment ==
    /\ pc = "read"
    /\ ReadString(in).err # Nil
    /\ rfails < MaxReadFails
    /\ input' = ReadString(in).line
    /\ in' = ReadString(in).rest
    /\ errW' = Append(errW, ReadString(in).err)
    /\ rfails' = rfails + 1
    /\ pc' = IF ReadString(in).line # <<>> THEN "dispatch" ELSE "select"
    /\ UNCHANGED <<w, exit, os, hist, last, pfails>>

\* lines 34-37: the read fails
ReadFail ==
    /\ pc = "read"
    /\ ReadString(in).err # Nil
    /\ rfails < MaxReadFails
    /\ input' = ReadString(in).line
    /\ in' = ReadString(in).rest
    /\ errW' = Append(errW, ReadString(in).err)
    /\ rfails' = rfails + 1
    /\ pc' = "select"
    /\ UNCHANGED <<w, exit, os, hist, last, pfails>>

\* a dispatch whose failure ends the loop
DispatchReturnOnError ==
    /\ pc = "dispatch"
    /\ \E status \in {0, 1}, wdOk \in BOOLEAN :
          LET r == handleInput(input, exit, os, status, wdOk)
          IN  /\ hist' = Append(hist, input)
              /\ last' = r
              /\ w' = w \o r.out
              /\ os' = r.os
              /\ exit' = r.exit
              /\ IF r.blocked
                 THEN pc' = "blocked" /\ errW' = errW
                 ELSE /\ pc' = IF r.err # Nil THEN "done" ELSE "select"
                      /\ errW' = IF r.err # Nil THEN Append(errW, r.err) ELSE errW
    /\ UNCHANGED <<in, input, pfails, rfails>>

\* lines 38-40: the line is handed to handleInput
Dispatch ==
    /\ pc = "dispatch"
    /\ \E status \in {0, 1}, wdOk \in BOOLEAN :
          LET r == handleInput(input, exit, os, status, wdOk)
          IN  /\ hist' = Append(hist, input)
              /\ last' = r
              /\ w' = w \o r.out
              /\ os' = r.os
              /\ exit' = r.exit
              /\ IF r.blocked
                 THEN pc' = "blocked" /\ errW' = errW
                 ELSE /\ pc' = "select"
                      /\ errW' = IF r.err # Nil THEN Append(errW, r.err) ELSE errW
    /\ UNCHANGED <<in, input, pfails, rfails>>

Next == SelectExit \/ PromptOk \/ PromptFail \/ ReadOk \/ ReadFail \/ Dispatch

Spec == Init /\ [][Next]_vars

----------------------------------------------------------------------------
(* handleInput on its own: one call, on a line and an operating system     *)
(* drawn from the sets below.                                              *)

Cmds ==
    { <<>>, <<W_echo>>, <<W_echo, W_a, W_b>>, <<W_echo, W_b>>,
      <<W_cd>>, <<W_cd, W_a>>, <<W_cd, W_b, W_a>>,
      <<W_mkdir>>, <<W_mkdir, W_a, W_b>>, <<W_mkdir, W_b, W_a>>, <<W_mkdir, W_b>>,
      <<W_rm>>, <<W_rm, W_a, W_b>>, <<W_rm, W_b, W_a>>, <<W_rm, W_a>>,
      <<W_exit>>, <<W_exit, W_a>>, <<W_EXIT>>, <<W_Cd, W_a>>,
      <<W_env>>, <<W_env, W_a, W_b>>, <<W_env, W_b, W_a>>,
      <<W_pwd>>, <<W_history, W_a>>, <<W_nosuch>>, <<W_ls, W_a>> }

\* the runs of whitespace put between two tokens: up to n spaces, a tab, a
\* tab and a space
Gaps(n) ==
    { [i \in 1..k |-> " "] : k \in 1..n } \cup { <<"\t">>, <<"\t", " ">> }

Leads == { <<>>, <<" ">> }
Trails == { <<>>, <<"\n">>, <<"\t", "\n">> }

RECURSIVE Interleave(_, _)
Interleave(toks, gaps) ==
    IF toks = <<>> THEN <<>>
    ELSE IF Len(toks) = 1 THEN toks[1]
    ELSE toks[1] \o gaps[1] \o Interleave(Tail(toks), Tail(gaps))

LinesOf(toks) ==
    { lead \o Interleave(toks, gaps) \o trail :
        lead \in Leads, trail \in Trails,
        gaps \in [1..(Len(toks) - 1) -> Gaps(MaxGap)] }

\* the line of the property of section 8 of the specification
EchoExample ==
    W_echo \o <<" ", " ", " ">> \o W_a \o <<" ", " ", " ">> \o W_b

HLines ==
    UNION { LinesOf(toks) : toks \in Cmds }
    \cup { g \o trail : g \in Gaps(MaxGap), trail \in Trails }
    \cup { EchoExample }

OsInitsH ==
    { [cwd |-> <<>>, fs |-> {}],
      [cwd |-> <<>>, fs |-> {<<W_a>>}],
      [cwd |-> <<>>, fs |-> {<<W_a>>, <<W_b>>}],
      [cwd |-> <<>>, fs |-> {<<W_a>>, <<W_a, W_b>>}],
      [cwd |-> <<W_a>>, fs |-> {<<W_a>>, <<W_a, W_b>>}] }

InitH ==
    /\ input \in HLines
    /\ os \in OsInitsH
    /\ in = <<>>
    /\ w = <<>>
    /\ errW = <<>>
    /\ exit = 0
    /\ pc = "dispatch"
    /\ hist = <<>>
    /\ last = NoLast
    /\ pfails = 0
    /\ rfails = 0

SpecH == InitH /\ [][Dispatch]_vars

----------------------------------------------------------------------------
(* Properties of runLoop *)

FirstToken(line) == IF Fields(line) = <<>> THEN <<>> ELSE Fields(line)[1]
IsExitLine(line) == FirstToken(line) = W_exit
ExitDispatched == \E i \in 1..Len(hist) : IsExitLine(hist[i])
Notices == {i \in 1..Len(w) : w[i].k = "notice"}
EOF == Err("read", <<>>, "EOF")

\* C1: the dispatch of an exit line returns to the top of the loop with the
\* signal enqueued, and the only step after it is the exit check that ends
\* the loop: nothing more is read from the input or dispatched.
C1_NoLineAfterExit ==
    [][ /\ (pc = "dispatch" /\ IsExitLine(input))
            => (pc' = "select" /\ exit' = exit + 1)
        /\ ExitDispatched
            => (pc = "select" /\ pc' = "done" /\ in' = in /\ input' = input
                /\ hist' = hist) ]_vars

C1_Witness ==
    /\ pc = "done"
    /\ Len(hist) >= 1
    /\ IsExitLine(hist[Len(hist)])
    /\ HasNewline(in)

\* C2: with a signal pending at the top of the loop the only step writes the
\* notice and ends the loop, without a prompt, a read or a dispatch; the
\* notice is written once, is the last write, and nothing follows the end.
C2_NoticeThenStop ==
    /\ [] /\ (pc = "done") => (Cardinality(Notices) = 1 /\ w[Len(w)] = Wr("notice", S_notice))
          /\ (pc # "done") => (Notices = {})
    /\ [][ /\ pc # "done"
           /\ (pc = "select" /\ exit > 0)
               => (w' = Append(w, Wr("notice", S_notice)) /\ pc' = "done"
                   /\ in' = in /\ input' = input /\ hist' = hist /\ errW' = errW
                   /\ os' = os) ]_vars

C2_Witness ==
    /\ pc = "done"
    /\ Len(w) >= 3
    /\ w[Len(w)].k = "notice"
    /\ w[Len(w) - 1].k = "prompt"

\* C3: the loop ends only from the exit check with a signal pending; a failed
\* read writes the error to the error writer and goes back to the top; once no
\* full line is left and no signal is pending, that stays so.
Exhausted == ~HasNewline(in) /\ pc \in {"select", "read"} /\ exit = 0

C3_OnlyExitTerminates ==
    [][ /\ (pc' = "done") => (pc = "select" /\ exit > 0)
        /\ (pc = "read" /\ ~HasNewline(in))
            => (errW' = Append(errW, EOF) /\ pc' = "select" /\ w' = w
                /\ exit' = exit /\ hist' = hist)
        /\ Exhausted => Exhausted' ]_vars

C3_Witness ==
    /\ Exhausted
    /\ rfails >= 2
    /\ pc = "read"
    /\ Len(hist) >= 1

\* C4: with the channel of main the send of the exit built-in never blocks:
\* the pending signals never exceed the capacity and are below it whenever an
\* exit line is about to be dispatched.
C4_SendNeverBlocks ==
    /\ pc # "blocked"
    /\ exit <= ExitCap
    /\ (pc = "dispatch" /\ IsExitLine(input)) => (exit < ExitCap)

C4_Witness ==
    /\ pc = "select"
    /\ last.call = "exit"
    /\ exit = 1
    /\ HasNewline(in)
    /\ IsExitLine(ReadString(in).line)

\* C5: a failed prompt, a failed read and a failed dispatch each write one
\* line to the error writer and nothing to the output writer, and go back to
\* the top of the loop; a full line that is left is then read and dispatched;
\* the loop ends only after the dispatch of exit.
PromptErrors == {"user", "getwd", "write"}

C5_FailuresKeepLooping ==
    [][ /\ (pc = "select" /\ pc' = "select")
            => (/\ Len(errW') = Len(errW) + 1
                /\ SubSeq(errW', 1, Len(errW)) = errW
                /\ errW'[Len(errW')].op \in PromptErrors
                /\ w' = w /\ in' = in /\ exit' = exit /\ hist' = hist)
        /\ (pc = "read" /\ ~HasNewline(in))
            => (errW' = Append(errW, EOF) /\ w' = w /\ pc' = "select")
        /\ (pc = "read" /\ HasNewline(in))
            => (/\ pc' = "dispatch"
                /\ input' \o in' = in
                /\ input'[Len(input')] = "\n"
                /\ ~HasNewline(SubSeq(input', 1, Len(input') - 1))
                /\ errW' = errW /\ w' = w)
        /\ (pc = "dispatch")
            => (/\ hist' = Append(hist, input)
                /\ pc' = "select"
                /\ in' = in
                /\ IF last'.err # Nil
                   THEN errW' = Append(errW, last'.err) /\ w' = w /\ exit' = 0
                   ELSE errW' = errW)
        /\ (pc' = "done") => (last.call = "exit" /\ last.err = Nil) ]_vars

C5_Witness ==
    /\ hist = << Line(<<W_nosuch>>), Line(<<W_echo, W_a>>) >>
    /\ pfails = 1
    /\ rfails = 1
    /\ Len(errW) = 3
    /\ pc = "select"

----------------------------------------------------------------------------
(* Properties of handleInput *)

IsBlank(s) == \A i \in 1..Len(s) : s[i] \in {" ", "\t", "\n", "\r"}

\* C6: the dispatch of an empty or whitespace-only line returns nil, calls
\* no handler and no system call, writes nothing, enqueues no signal and
\* leaves the operating system as it is.
C6_BlankIsNoOp ==
    [][ (pc = "dispatch" /\ IsBlank(input))
          => (/\ last'.err = Nil
              /\ last'.call = "none"
              /\ last'.ops = <<>>
              /\ last'.out = <<>>
              /\ w' = w /\ errW' = errW /\ exit' = exit /\ os' = os
              /\ pc' = "select") ]_vars

C6_Witness ==
    /\ pc = "select"
    /\ Len(hist) = 1
    /\ IsBlank(hist[1])
    /\ Len(hist[1]) >= 2
    /\ last.call = "none"

\* the lines that differ from s by one more whitespace character, put at an
\* end of s or next to a whitespace character of s
Insert(s, p, c) == SubSeq(s, 1, p) \o <<c>> \o SubSeq(s, p + 1, Len(s))
Variants(s) ==
    { Insert(s, p, c) : p \in {q \in 0..Len(s) : \/ q = 0 \/ q = Len(s)
                                                  \/ s[q] \in {" ", "\t", "\n"}
                                                  \/ s[q + 1] \in {" ", "\t", "\n"}},
                        c \in {" ", "\t", "\n"} }

\* C7: a line and every line with one more whitespace character between its
\* tokens or at its ends select the same command name and arguments, and give
\* the same error, output and effects; no token is empty or holds whitespace;
\* the lines echo a b, with any whitespace, write a b and a newline.
C7_WhitespaceInsensitive ==
    [][ (pc = "dispatch")
          => (/\ \A i \in 1..Len(last'.fields) :
                    /\ last'.fields[i] # <<>>
                    /\ \A j \in 1..Len(last'.fields[i]) :
                          last'.fields[i][j] \notin {" ", "\t", "\n"}
              /\ \A v \in Variants(input) :
                    \E status \in {0, 1}, wdOk \in BOOLEAN :
                       LET r == handleInput(v, exit, os, status, wdOk)
                       IN  /\ r.fields = last'.fields
                           /\ r.call = last'.call
                           /\ r.err = last'.err
                           /\ r.out = last'.out
                           /\ r.ops = last'.ops
                           /\ r.os = os'
                           /\ r.exit = exit'
              /\ (input \in LinesOf(<<W_echo, W_a, W_b>>) \cup {EchoExample})
                    => (w' = << Wr("echo", <<"a", " ", "b", "\n">>) >>
                        /\ last'.err = Nil)) ]_vars

C7_Witness ==
    /\ pc = "select"
    /\ hist = << EchoExample >>
    /\ last.fields = << W_echo, W_a, W_b >>
    /\ w = << Wr("echo", <<"a", " ", "b", "\n">>) >>

\* C8: a line whose command name is none of the eight built-in names, in that
\* exact case, is handed to executeCommand and to no built-in: no signal is
\* enqueued, nothing of the shell's state changes, a launch failure is
\* returned and written to the error writer, and the loop goes on.
Builtins == {W_cd, W_env, W_exit, W_echo, W_pwd, W_history, W_mkdir, W_rm}

C8_UnknownNamesAreExternal ==
    [][ (pc = "dispatch" /\ FirstToken(input) # <<>> /\ FirstToken(input) \notin Builtins)
          => (/\ last'.call = "exec"
              /\ last'.ops = << <<"exec", FirstToken(input)>> >>
              /\ exit' = exit /\ os' = os /\ w' = w
              /\ pc' = "select"
              /\ (FirstToken(input) \notin Executables)
                    => (/\ last'.err = Err("exec", FirstToken(input),
                                           "executable file not found in $PATH")
                        /\ errW' = Append(errW, last'.err))
              /\ (last'.err = Nil) => (errW' = errW)) ]_vars

C8_Witness ==
    /\ hist = << Line(<<W_EXIT>>), Line(<<W_echo, W_a>>) >>
    /\ errW = << Err("exec", W_EXIT, "executable file not found in $PATH") >>
    /\ pc = "select"
    /\ exit = 0

\* the system call of mkdir and of rm, and the system after the calls on
\* every name of xs, whether they fail or not
OsCall(opname, o, x) == IF opname = "mkdir" THEN Mkdir(o, x) ELSE Remove(o, x)
RECURSIVE ApplyAll(_, _, _)
ApplyAll(opname, o, xs) ==
    IF xs = <<>> THEN o ELSE ApplyAll(opname, OsCall(opname, o, Head(xs)).os, Tail(xs))

\* C9: mkdir and rm with arguments x1..xn: when the call on xi is the first
\* to fail, the command returns the error of that call, the system is the one
\* after the calls on x1..x(i-1), and the calls attempted are those on x1..xi;
\* when none fails all are applied and nil is returned.
C9_FirstFailureAborts ==
    [][ (pc = "dispatch" /\ Len(Fields(input)) >= 2
         /\ Fields(input)[1] \in {W_mkdir, W_rm})
          => LET xs == Tail(Fields(input))
                 opname == IF Fields(input)[1] = W_mkdir THEN "mkdir" ELSE "remove"
                 Before(i) == ApplyAll(opname, os, SubSeq(xs, 1, i - 1))
                 Fails(i) == OsCall(opname, Before(i), xs[i]).err # Nil
                 failing == {i \in 1..Len(xs) : Fails(i)}
                 first == CHOOSE i \in failing : \A j \in failing : i <= j
             IN  /\ w' = w
                 /\ IF failing = {}
                    THEN /\ last'.err = Nil
                         /\ os' = ApplyAll(opname, os, xs)
                         /\ last'.ops = [j \in 1..Len(xs) |-> <<opname, xs[j]>>]
                         /\ errW' = errW
                    ELSE /\ last'.err = OsCall(opname, Before(first), xs[first]).err
                         /\ last'.err.path = xs[first]
                         /\ os' = Before(first)
                         /\ last'.ops = [j \in 1..first |-> <<opname, xs[j]>>]
                         /\ errW' = Append(errW, last'.err) ]_vars

C9_Witness ==
    /\ pc = "select"
    /\ last.fields = << W_mkdir, W_b, W_a >>
    /\ last.err = Err("mkdir", W_a, "file exists")
    /\ os.fs = { <<W_a>>, <<W_b>> }
    /\ Len(last.ops) = 2

\* C10: cd, mkdir and rm without arguments return their missing-argument
\* error, attempt no system call and leave the working directory and the
\* directories as they are.
C10_ArgumentErrorsChangeNothing ==
    [][ (pc = "dispatch" /\ Fields(input) \in { <<W_cd>>, <<W_mkdir>>, <<W_rm>> })
          => (/\ last'.err = (CASE Fields(input) = <<W_cd>> -> Err("cd", <<>>, "missing argument")
                                [] Fields(input) = <<W_mkdir>> -> Err("mkdir", <<>>, "missing operand")
                                [] OTHER -> Err("rm", <<>>, "missing operand"))
              /\ last'.ops = <<>>
              /\ os' = os /\ w' = w /\ exit' = exit
              /\ errW' = Append(errW, last'.err)) ]_vars

C10_Witness ==
    /\ pc = "select"
    /\ last.fields = << W_cd >>
    /\ last.err = Err("cd", <<>>, "missing argument")
    /\ os.cwd = << W_a >>

\* the names set in the environment table, and the line env writes for x
IsSet(x) == \E j \in 1..Len(Environ) : Environ[j][1] = x
ValueOf(x) == Environ[CHOOSE j \in 1..Len(Environ) :
                          Environ[j][1] = x /\ \A k \in 1..(j - 1) : Environ[k][1] # x][2]
EnvLine(x) ==
    IF IsSet(x) THEN x \o <<"=">> \o ValueOf(x) \o <<"\n">> ELSE x \o S_notfound

\* whether the text t occurs in the text s
Contains(s, t) ==
    \E p \in 0..(Len(s) - Len(t)) : SubSeq(s, p + 1, p + Len(t)) = t

RECURSIVE SumLen(_)
SumLen(xs) == IF xs = <<>> THEN 0 ELSE Len(Head(xs)) + SumLen(Tail(xs))
SingleSpaced(s, xs) ==
    /\ Fields(s) = xs
    /\ Len(s) = SumLen(xs) + (IF Len(xs) = 0 THEN 0 ELSE Len(xs) - 1)
    /\ \A i \in 1..Len(s) : s[i] \in {" ", "\t", "\n", "\r"} => s[i] = " "

\* C12: echo with arguments x1..xn, n >= 0, returns nil and makes one write
\* to the output writer: the arguments with one space between two of them,
\* then a newline; with no argument the write is the newline alone.
C12_EchoOneLine ==
    [][ (pc = "dispatch" /\ FirstToken(input) = W_echo)
          => LET xs == Tail(Fields(input))
                 s == w'[Len(w')].s
             IN  /\ last'.err = Nil
                 /\ errW' = errW
                 /\ os' = os /\ exit' = exit
                 /\ Len(w') = Len(w) + 1
                 /\ SubSeq(w', 1, Len(w)) = w
                 /\ s[Len(s)] = "\n"
                 /\ SingleSpaced(SubSeq(s, 1, Len(s) - 1), xs)
                 /\ (xs = <<>>) => (s = <<"\n">>) ]_vars

C12_Witness ==
    /\ pc = "select"
    /\ last.fields = << W_echo >>
    /\ last.err = Nil
    /\ w = << Wr("echo", <<"\n">>) >>

----------------------------------------------------------------------------
(* More properties of runLoop *)

Prompts == {i \in 1..Len(w) : w[i].k = "prompt"}

\* C13: a failed prompt writes its error to the error writer and goes back
\* to the top with the input, the output writer and the dispatched lines
\* untouched; the input is consumed only by the read, and at every read the
\* last write is the prompt of that iteration: there are as many prompts
\* written as reads made or under way.
C13_ReadOnlyAfterPrompt ==
    /\ [] /\ (pc = "read") => (Len(w) >= 1 /\ w[Len(w)].k = "prompt")
          /\ Cardinality(Prompts)
                = Len(hist) + rfails + (IF pc \in {"read", "dispatch"} THEN 1 ELSE 0)
    /\ [][ /\ (pc = "select" /\ exit = 0 /\ pc' = "select")
               => (/\ errW' = Append(errW, errW'[Len(errW')])
                   /\ errW'[Len(errW')].op \in PromptErrors
                   /\ in' = in /\ input' = input /\ hist' = hist /\ w' = w
                   /\ exit' = exit /\ os' = os)
           /\ (in' # in \/ input' # input) => (pc = "read")
           /\ (pc = "select" /\ pc' = "read")
               => (w' = Append(w, w'[Len(w')]) /\ w'[Len(w')].k = "prompt"
                   /\ errW' = errW /\ in' = in) ]_vars

C13_Witness ==
    /\ pc = "dispatch"
    /\ pfails = 1
    /\ Len(errW) = 1
    /\ errW[1].op \in PromptErrors
    /\ Cardinality(Prompts) = 1
    /\ hist = <<>>

\* C14: the pending signals grow only in the dispatch of an exit line, by
\* one, and shrink only in the exit check at the top of the loop, by one; the
\* dispatch of any other line leaves them as they are; the dispatch of exit,
\* with or without arguments, returns nil and does nothing else.
C14_SignalWrittenByExitOnly ==
    [][ /\ (exit' > exit)
            => (pc = "dispatch" /\ IsExitLine(input) /\ exit' = exit + 1)
        /\ (exit' < exit)
            => (pc = "select" /\ pc' = "done" /\ exit' = exit - 1)
        /\ (pc = "dispatch" /\ ~IsExitLine(input)) => (exit' = exit)
        /\ (pc = "dispatch" /\ IsExitLine(input))
            => (/\ exit' = exit + 1
                /\ last'.err = Nil
                /\ last'.call = "exit"
                /\ last'.ops = <<>>
                /\ errW' = errW /\ w' = w /\ os' = os
                /\ pc' = "select") ]_vars

C14_Witness ==
    /\ pc = "select"
    /\ last.fields = << W_exit, W_a >>
    /\ last.err = Nil
    /\ exit = 1
    /\ Len(hist) = 2
    /\ ~IsExitLine(hist[1])

\* the newline-terminated lines of the text s, in order
RECURSIVE LinesFrom(_, _, _)
LinesFrom(s, cur, acc) ==
    IF s = <<>> THEN acc
    ELSE IF Head(s) = "\n" THEN LinesFrom(Tail(s), <<>>, Append(acc, Append(cur, "\n")))
    ELSE LinesFrom(Tail(s), Append(cur, Head(s)), acc)
LinesIn(s) == LinesFrom(s, <<>>, <<>>)

\* the lines dispatched, the line read and not yet dispatched, the lines unread
Pending == IF pc = "dispatch" THEN <<input>> ELSE <<>>
AllLines == hist \o Pending \o LinesIn(in)
DispatchErrors == {i \in 1..Len(errW) : errW[i].op \notin PromptErrors \cup {"read"}}

\* C15: the lines dispatched, the line under dispatch and the unread lines
\* are at every step the lines of the input, in order, so each line is
\* dispatched once and in order; no exit line is followed by a dispatch; a
\* dispatch is one step that ends at the top of the loop, before any prompt,
\* and appends at most one error, its own result, to the error writer.
C15_OneDispatchPerLineInOrder ==
    /\ [] /\ Cardinality(DispatchErrors) <= Len(hist)
          /\ \A i \in 1..(Len(hist) - 1) : ~IsExitLine(hist[i])
          /\ Len(Pending) = 1 => ~ExitDispatched
    /\ [][ /\ AllLines' = AllLines
           /\ (hist' # hist) => (pc = "dispatch" /\ hist' = Append(hist, input))
           /\ (pc = "dispatch")
               => (/\ pc' = "select"
                   /\ Prompts' = Prompts
                   /\ errW' = IF last'.err = Nil THEN errW ELSE Append(errW, last'.err))
           /\ (Prompts' # Prompts) => (pc = "select" /\ pc' = "read") ]_vars

C15_Witness ==
    /\ pc = "done"
    /\ hist = << Line(<<W_nosuch>>), Line(<<W_exit>>) >>
    /\ Len(errW) = 1
    /\ Cardinality(Prompts) = 2

\* C16: the channel of main never holds more than one signal; it holds one
\* only at the top of the loop right after the dispatch of exit, and none
\* while a line is read or dispatched and none once the loop has ended.
C16_AtMostOneSignal ==
    /\ exit \in {0, 1}
    /\ (exit = 1) => (pc = "select" /\ last.call = "exit" /\ IsExitLine(hist[Len(hist)]))
    /\ (pc \in {"read", "dispatch", "done"}) => (exit = 0)

C16_Witness ==
    /\ pc = "done"
    /\ exit = 0
    /\ hist = << Line(<<W_exit>>) >>
    /\ in = Line(<<W_exit, W_a>>)

\* C17: every line dispatched ends with a newline; a read of input without
\* a newline takes what is left into the variable input, writes the
\* end-of-input error and goes back to the top without a dispatch, so a last
\* exit without a newline enqueues no signal and the loop does not end.
C17_FragmentNeverDispatched ==
    /\ [] /\ \A i \in 1..Len(hist) : hist[i][Len(hist[i])] = "\n"
          /\ (pc = "dispatch") => (input # <<>> /\ input[Len(input)] = "\n")
          /\ (pc = "done") => ExitDispatched
    /\ [][ (pc = "read" /\ ~HasNewline(in))
             => (/\ input' = in
                 /\ in' = <<>>
                 /\ errW' = Append(errW, EOF)
                 /\ pc' = "select"
                 /\ hist' = hist /\ last' = last /\ exit' = exit /\ w' = w
                 /\ os' = os) ]_vars

C17_Witness ==
    /\ pc = "read"
    /\ rfails = 1
    /\ input = W_exit
    /\ in = <<>>
    /\ exit = 0
    /\ ~ExitDispatched
    /\ Len(hist) >= 1

----------------------------------------------------------------------------
(* Termination of runLoop.  The loop is one goroutine that keeps running   *)
(* while it has a step to take, and the input is there to be read: weak    *)
(* fairness of the next-state relation.                                    *)

LiveLineSet ==
    { Line(<<W_exit>>), Line(<<>>), Line(<<W_echo, W_a>>), Line(<<W_nosuch>>) }

RECURSIVE LiveStreams(_)
LiveStreams(n) ==
    IF n = 0 THEN Fragments
    ELSE Fragments \cup { l \o s : l \in LiveLineSet, s \in LiveStreams(n - 1) }

InitLive ==
    /\ in \in LiveStreams(MaxLines)
    /\ os \in OsInits
    /\ w = <<>>
    /\ errW = <<>>
    /\ exit = 0
    /\ pc = "select"
    /\ input = <<>>
    /\ hist = <<>>
    /\ last = NoLast
    /\ pfails = 0
    /\ rfails = 0

FairSpec == InitLive /\ [][Next]_vars /\ WF_vars(Next)

ExitLineIn(s) == \E i \in 1..Len(LinesIn(s)) : IsExitLine(LinesIn(s)[i])

\* the loop has ended with the first exit line as the last line dispatched
EndedAtFirstExit ==
    /\ pc = "done"
    /\ Len(hist) >= 1
    /\ IsExitLine(hist[Len(hist)])
    /\ \A i \in 1..(Len(hist) - 1) : ~IsExitLine(hist[i])

\* C18: when the input holds a newline-terminated exit line and no prompt
\* fails, the loop ends; the lines dispatched, under dispatch and unread are
\* always the lines of the input, and when the loop has ended the lines
\* dispatched are those up to and including the first exit line.
C18_TerminatesAtFirstExit ==
    /\ ExitLineIn(in) => <>(pfails > 0 \/ EndedAtFirstExit)
    /\ [](pc = "done" => EndedAtFirstExit)
    /\ [][AllLines' = AllLines]_vars

C18_Witness ==
    /\ pc = "done"
    /\ pfails = 0
    /\ hist = << Line(<<W_echo, W_a>>), Line(<<W_exit>>) >>
    /\ in = W_exit

====
